---- MODULE Spec2Model ----
(***************************************************************************)
(* Model of python_backend/analyze_pair.py: the signal engine run_strategy *)
(* with its helpers (EMA/Keltner wrappers, zone detector, forecaster,      *)
(* formatters) and the CLI wrapper main.                                   *)
(*                                                                         *)
(* Numbers.  Every price is an integer count of 1/PU price units, PU being *)
(* 10^4: with whole-number closes every product the code forms (x 0.985,   *)
(* x 1.05, the quantile interpolation, risk x 1.5, ...) is an exact        *)
(* multiple of 1/PU, so the model computes in exact arithmetic what the    *)
(* code computes in binary floating point.  RSI and Stochastic values are  *)
(* whole percent points.                                                   *)
(*                                                                         *)
(* The `ta` indicator library is not part of the repository.  Its return   *)
(* values (RSI, %K, %D, the raw EMA and Keltner series tails) are inputs:  *)
(* the first time the engine asks for them on a series they are drawn from *)
(* bounded sets and remembered, so that the library stays a function of    *)
(* the series.                                                             *)
(***************************************************************************)
EXTENDS Integers, Sequences, FiniteSets, TLC

VARIABLES
    pc,             \* position of the control flow
    entry,          \* "cli" (main) or "direct" (run_strategy called by a library user)
    heap,           \* the DataFrame objects: object id -> rows
    df,             \* the DataFrame handed to run_strategy (a reference into heap)
    df_in,          \* history: the rows of df when run_strategy was entered
    calls,          \* number of run_strategy calls started
    ta,             \* what the indicator library returns on df (remembered)
    taSim,          \* what it returns on the two breakout copies (remembered)
    ind,            \* indicator snapshot after the wrappers' fallbacks
    zones,          \* support_zone, resistance_zone
    current_price,
    flags,          \* the ten feature flags, momentum, overbought/oversold
    vote,           \* bullish_points, bearish_points
    confidence,
    signal_type,
    sl, tp,
    levels,         \* history: sl/tp as left by stage 5 and by the forecast stage
    df_bullish, df_bearish,     \* references to the two simulation copies
    sim,            \* breakout simulation locals
    chartFile,      \* content of CHARTS_DIR/<name>_chart.jpg
    result,         \* (dict, success) returned by run_strategy
    prev_result,    \* what the previous call on the same series returned
    stdout, stderr, exit_code,
    unit            \* a helper called on its own: the call and what it returned

vars == << pc, entry, heap, df, df_in, calls, ta, taSim, ind, zones, current_price,
           flags, vote, confidence, signal_type, sl, tp, levels, df_bullish,
           df_bearish, sim, chartFile, result, prev_result, stdout, stderr,
           exit_code, unit >>

----------------------------------------------------------------------------
(* Bounds of the model *)

\* closes are whole prices 1..MaxPrice
MaxPrice == 2
\* run_strategy is called at most MaxCalls times on the same series
MaxCalls == 2
\* helpers called on their own get every series length 0..MaxShortLen
MaxShortLen == 61

(* Program constants *)

CANDLE_LIMIT == 50
LOOKBACK == 20
FORECAST_PERIODS == 30
TREND_WINDOW == 10
MOMENTUM_LAG == 20
PLACEHOLDER_VOLUME == 1000000
DEFAULT_CONFIDENCE == 50
STRONG_FLOOR == 70
KELTNER_PERIOD == 20

\* fixed-point unit: one price unit
PU == 100 * 100
\* float('nan') and None, as values no price or percentage takes
NaN == 0 - 2000000000
None == 0 - 2000000001
\* the library call raised instead of returning a value
Raise == 0 - 2000000003
\* what a function "returns" when an exception leaves it
Raises == [exception |-> "IndexError"]

IsNaN(x) == x = NaN
NotNa(x) == x # NaN /\ x # None

\* IEEE comparisons: any comparison with NaN is False
Gt(a, b) == ~IsNaN(a) /\ ~IsNaN(b) /\ a > b
Lt(a, b) == ~IsNaN(a) /\ ~IsNaN(b) /\ a < b
Ge(a, b) == ~IsNaN(a) /\ ~IsNaN(b) /\ a >= b
Le(a, b) == ~IsNaN(a) /\ ~IsNaN(b) /\ a <= b

\* x * num / den on exact operands
Scale(x, num, den) == (x * num) \div den

Abs(x) == IF x < 0 THEN 0 - x ELSE x
Max2(a, b) == IF b > a THEN b ELSE a
Min2(a, b) == IF b < a THEN b ELSE a
SeqMax(s) == CHOOSE x \in {s[i] : i \in DOMAIN s} : \A j \in DOMAIN s : s[j] <= x
SeqMin(s) == CHOOSE x \in {s[i] : i \in DOMAIN s} : \A j \in DOMAIN s : s[j] >= x
\* a sequence given by a function expression, evaluated once
Force(f) == f \o << >>
LastN(s, k) == SubSeq(s, Len(s) - k + 1, Len(s))

\* pandas Series.quantile(qn/qd), linear interpolation between the two order
\* statistics around position q * (n - 1)
Quantile(s, qn, qd) ==
    LET sorted == SortSeq(s, LAMBDA x, y : x < y)
        pos    == qn * (Len(s) - 1)
        lo     == pos \div qd
        rem    == pos % qd
        a      == sorted[lo + 1]
        b      == IF rem = 0 THEN a ELSE sorted[lo + 2]
    IN  a + Scale(b - a, rem, qd)

----------------------------------------------------------------------------
(* The candle series *)

Candle(o, h, l, c, v) == [Open |-> o, High |-> h, Low |-> l, Close |-> c, Volume |-> v]

\* get_coingecko_market_data: OHLC synthesised from a price list
OHLCRow(prev_close, price, first) ==
    IF first
    THEN Candle(price, price, price, price, PLACEHOLDER_VOLUME)
    ELSE LET volatility_factor == Scale(Abs(price - prev_close), 1, 10)
         IN  Candle(prev_close,
                    Max2(prev_close, price) + volatility_factor,
                    Min2(prev_close, price) - volatility_factor,
                    price, PLACEHOLDER_VOLUME)

OHLC(prices) ==
    Force([i \in 1..Len(prices) |->
        OHLCRow(IF i = 1 THEN prices[1] ELSE prices[i - 1], prices[i], i = 1)])

\* price lists of length n: a up to 20 candles from the end, then m for 19
\* candles (m is the close 20 candles back and the first of the last ten
\* closes), d the last close
PriceList(n, a, m, d) ==
    Force([i \in 1..n |->
        PU * (IF i = n THEN d
              ELSE IF i > n - MOMENTUM_LAG THEN m
              ELSE a)])

Prices == 1..MaxPrice
FullLists ==
    {PriceList(CANDLE_LIMIT, a, m, d) : a \in Prices, m \in Prices, d \in Prices}
ShortLists ==
    {PriceList(n, 1, 1, d) : n \in {0, 1, CANDLE_LIMIT - 1}, d \in Prices}
\* a full series whose last close is 0
ZeroLists == {PriceList(CANDLE_LIMIT, 1, 1, 0)}
\* full series flat at 10 that end 1.2% higher or lower: the momentum flag is
\* set while the zones stay within 1.5% of the price
GentleLists ==
    {Force([i \in 1..CANDLE_LIMIT |-> IF i = CANDLE_LIMIT THEN d ELSE 10 * PU]) :
        d \in {988 * (PU \div 100), 1012 * (PU \div 100)}}

Close(rows) == Force([i \in DOMAIN rows |-> rows[i].Close])
High(rows) == Force([i \in DOMAIN rows |-> rows[i].High])
Low(rows) == Force([i \in DOMAIN rows |-> rows[i].Low])
LastClose(rows) == rows[Len(rows)].Close

\* a DataFrame variable: None, or a reference to an object of the heap with its
\* .name attribute
NoFrame == [present |-> FALSE, ref |-> 0, name |-> ""]
Frame(ref, name) == [present |-> TRUE, ref |-> ref, name |-> name]
ORIGINAL == 1
BULL_COPY == 2
BEAR_COPY == 3
EmptyHeap == [o \in {ORIGINAL, BULL_COPY, BEAR_COPY} |-> << >>]

----------------------------------------------------------------------------
(* Indicator wrappers.  raw is what the `ta` library returned at the last   *)
(* position of its output series.                                          *)

\* calculate_ema: NaN, then zero, fall back to the last close
EmaFallbackNaNOnly(raw, last_close) == IF NotNa(raw) THEN raw ELSE last_close
EmaFallback(raw, last_close) ==
    LET val == IF NotNa(raw) THEN raw ELSE last_close
    IN  IF val = 0 THEN last_close ELSE val

\* the windows asked of the library
EmaPeriodsUnclamped(n) ==
    [ema100_period |-> Max2(10, n \div 3), ema200_period |-> Max2(20, n \div 2)]
EmaPeriods(n) ==
    [ema100_period |-> Min2(100, Max2(10, n \div 3)),
     ema200_period |-> Min2(200, Max2(20, n \div 2))]

\* on an empty series df['Close'].iloc[-1] raises, in the try block and again
\* in the handler; otherwise a raise of the library is caught and both EMAs
\* are the last close
calculate_ema(rows, raw) ==
    IF Len(rows) = 0
    THEN Raises
    ELSE IF raw.ema100 = Raise \/ raw.ema200 = Raise
    THEN [ema100 |-> LastClose(rows), ema200 |-> LastClose(rows)]
    ELSE [ema100 |-> EmaFallback(raw.ema100, LastClose(rows)),
          ema200 |-> EmaFallback(raw.ema200, LastClose(rows))]

KeltnerPeriod(n, period) == Min2(period, Max2(5, n \div 3))

\* calculate_keltner_channels: a zero or NaN band becomes +2% / 0% / -2%
\* the handler takes 100.0 for the price of an empty series
calculate_keltner_channels(rows, raw) ==
    LET p == IF Len(rows) > 0 THEN LastClose(rows) ELSE 100 * PU
        invalid(x) == x = 0 \/ IsNaN(x)
    IN  IF Len(rows) = 0 \/ Raise \in {raw.upper, raw.basis, raw.lower}
        THEN [upper |-> Scale(p, 102, 100), basis |-> p, lower |-> Scale(p, 98, 100)]
        ELSE [upper |-> IF invalid(raw.upper) THEN Scale(p, 102, 100) ELSE raw.upper,
              basis |-> IF invalid(raw.basis) THEN p ELSE raw.basis,
              lower |-> IF invalid(raw.lower) THEN Scale(p, 98, 100) ELSE raw.lower]

\* Series.rolling(window).max() / .min(), restricted to its last `window`
\* positions, without the positions where the window is not yet full (NaN,
\* which max, min and quantile skip)
RollingMax(s, window) ==
    LET n     == Len(s)
        first == Max2(window, n - window + 1)
    IN  Force([k \in 1..(n - first + 1) |->
            SeqMax(SubSeq(s, first + k - window, first + k - 1))])
RollingMin(s, window) ==
    LET n     == Len(s)
        first == Max2(window, n - window + 1)
    IN  Force([k \in 1..(n - first + 1) |->
            SeqMin(SubSeq(s, first + k - window, first + k - 1))])

FallbackZones(p) ==
    [support    |-> << Scale(p, 95, 100), Scale(p, 98, 100) >>,
     resistance |-> << Scale(p, 102, 100), Scale(p, 105, 100) >>]

\* on an empty series df['Close'].iloc[-1] raises in the try block and again
\* in the handler
detect_support_resistance_zones(rows, lookback) ==
    IF Len(rows) = 0
    THEN Raises
    ELSE IF Len(rows) < lookback
    THEN FallbackZones(LastClose(rows))
    ELSE LET highs == RollingMax(High(rows), lookback)
             lows  == RollingMin(Low(rows), lookback)
         IN  [support    |-> << SeqMin(lows), Quantile(lows, 2, 10) >>,
              resistance |-> << Quantile(highs, 8, 10), SeqMax(highs) >>]

\* forecast_prices: linear trend over the last ten closes, +-5% band
forecast_from_zero(rows, periods) ==
    IF Len(rows) < TREND_WINDOW
    THEN << >>
    ELSE LET recent_prices == LastN(Close(rows), TREND_WINDOW)
             trend_num     == recent_prices[TREND_WINDOW] - recent_prices[1]
             last_price    == recent_prices[TREND_WINDOW]
             yhat(i)       == last_price + Scale(trend_num, i - 1, TREND_WINDOW)
         IN  Force([i \in 1..periods |->
                 [yhat       |-> yhat(i),
                  yhat_lower |-> Scale(yhat(i), 95, 100),
                  yhat_upper |-> Scale(yhat(i), 105, 100)]])
forecast_prices(rows, periods) ==
    IF Len(rows) < TREND_WINDOW
    THEN << >>
    ELSE LET recent_prices == LastN(Close(rows), TREND_WINDOW)
             trend_num     == recent_prices[TREND_WINDOW] - recent_prices[1]
             last_price    == recent_prices[TREND_WINDOW]
             yhat(i)       == last_price + Scale(trend_num, i, TREND_WINDOW)
         IN  Force([i \in 1..periods |->
                 [yhat       |-> yhat(i),
                  yhat_lower |-> Scale(yhat(i), 95, 100),
                  yhat_upper |-> Scale(yhat(i), 105, 100)]])

Column(forecast, col) == Force([i \in DOMAIN forecast |-> forecast[i][col]])

----------------------------------------------------------------------------
(* Formatting.  A Python value that ends up in the report is a record:      *)
(* None, or a str with the number printed in it (value, in units of        *)
(* 10^-decimals) and its fixed text.                                       *)

PyNone == [kind |-> "None", text |-> "", decimals |-> 0, value |-> 0]
Str(t) == [kind |-> "str", text |-> t, decimals |-> 0, value |-> 0]
NumStr(prefix, decimals, v) == [kind |-> "str", text |-> prefix, decimals |-> decimals, value |-> v]
\* the str "N/A" held by a variable that otherwise holds a number
NA == 0 - 2000000002

\* n / d rounded to the nearest integer, ties to even (d > 0)
RoundDiv(n, d) ==
    LET q == n \div d
        r == n % d
    IN  IF 2 * r < d THEN q
        ELSE IF 2 * r > d THEN q + 1
        ELSE IF q % 2 = 0 THEN q ELSE q + 1

\* format_price: "N/A" for zero, NaN and (through the bare except) a str;
\* four decimals below 100, two from 100 on
format_price(price) ==
    IF price = NA THEN Str("N/A")
    ELSE IF price = 0 \/ IsNaN(price) THEN Str("N/A")
    ELSE IF price < 100 * PU THEN NumStr("$", 4, RoundDiv(price * 10000, PU))
    ELSE NumStr("$", 2, RoundDiv(price * 100, PU))

\* format_strategy_number on a percentage: "N/A" for NaN, else two decimals
format_strategy_number(value) ==
    IF IsNaN(value) THEN Str("N/A") ELSE NumStr("", 2, value * 100)

----------------------------------------------------------------------------
(* What the indicator library may return *)

\* price levels between and around the whole prices
LevelLo == PU \div 2
LevelMid == (3 * PU) \div 2
LevelHi == (5 * PU) \div 2

\* << value at the last position, value one position earlier >>
RsiTails == { << NaN, NaN >>, << 51, 49 >>, << 49, 51 >>, << 75, 60 >>, << 25, 40 >> }
\* << %K last, %K one earlier, %D last >>
StochTails == { << NaN, NaN, NaN >>, << 30, 10, 20 >>, << 70, 90, 80 >>,
                << 50, 50, 50 >>, << 85, 85, 85 >>, << 10, 10, 10 >> }
EmaTails == { [ema100 |-> NaN, ema200 |-> 0],
              [ema100 |-> LevelMid, ema200 |-> LevelLo],
              [ema100 |-> LevelLo, ema200 |-> LevelMid] }
Band(basis) == [upper |-> basis + PU \div 4, basis |-> basis, lower |-> basis - PU \div 4]
KeltnerTails == { [upper |-> NaN, basis |-> 0, lower |-> NaN],
                  Band(LevelLo), Band(LevelHi) }
TaOutputs == [rsi : RsiTails, stoch : StochTails, ema : EmaTails, kc : KeltnerTails]

\* RSI and %K recomputed on the bullish and on the bearish copy
SimOutputs == { [rsi_bull |-> 60, stoch_bull |-> 60, rsi_bear |-> 40, stoch_bear |-> 40],
                [rsi_bull |-> 60, stoch_bull |-> 40, rsi_bear |-> 40, stoch_bear |-> 60],
                [rsi_bull |-> 53, stoch_bull |-> 46, rsi_bear |-> 50, stoch_bear |-> 50],
                [rsi_bull |-> 45, stoch_bull |-> 50, rsi_bear |-> 47, stoch_bear |-> 54],
                [rsi_bull |-> NaN, stoch_bull |-> NaN, rsi_bear |-> NaN, stoch_bear |-> NaN] }

----------------------------------------------------------------------------
(* run_strategy, stage by stage *)

\* the length guard
GuardOffByOne(frame, h) ==
    ~frame.present \/ Len(h[frame.ref]) < CANDLE_LIMIT - 1
GuardInsufficient(frame, h) ==
    ~frame.present \/ Len(h[frame.ref]) < CANDLE_LIMIT

GuardResultSuccess(message) ==
    [dict |-> [signal |-> "NO SIGNAL", tp |-> 0, sl |-> 0,
               chart_base64 |-> [prefix |-> "", payload |-> << >>],
               snapshot |-> [error |-> message]],
     success |-> TRUE]
GuardResult(message) ==
    [dict |-> [signal |-> "NO SIGNAL", tp |-> 0, sl |-> 0,
               chart_base64 |-> [prefix |-> "", payload |-> << >>],
               snapshot |-> [error |-> message]],
     success |-> FALSE]

\* the EMA and Keltner guards
InvalidEma(emas) == emas.ema100 = 0 \/ emas.ema200 = 0
InvalidKeltner(upper_kc, lower_kc) == upper_kc = 0 \/ lower_kc = 0

\* the indicator snapshot: library values through the wrappers
Snapshot(rows, lib) ==
    LET emas == calculate_ema(rows, lib.ema)
        kc   == calculate_keltner_channels(rows, lib.kc)
    IN  [rsi |-> lib.rsi[1], rsi_prev |-> lib.rsi[2],
         stoch_k |-> lib.stoch[1], stoch_k_prev |-> lib.stoch[2], stoch_d |-> lib.stoch[3],
         ema100 |-> emas.ema100, ema200 |-> emas.ema200,
         upper_kc |-> kc.upper, basis_kc |-> kc.basis, lower_kc |-> kc.lower]

\* the five feature pairs, momentum and the overbought/oversold tests
Features(i, price, close_20) ==
    LET rsi_crossover    == Gt(i.rsi, 50) /\ Le(i.rsi_prev, 50)
        rsi_crossunder   == Lt(i.rsi, 50) /\ Ge(i.rsi_prev, 50)
        stoch_crossover  == Gt(i.stoch_k, 20) /\ Le(i.stoch_k_prev, 20)
        stoch_crossunder == Lt(i.stoch_k, 80) /\ Ge(i.stoch_k_prev, 80)
        \* price_momentum = momentum_num / close_20, in percent
        momentum_num     == (price - close_20) * 100
    IN  [bullish_rsi      |-> rsi_crossover \/ Gt(i.rsi, 52),
         bearish_rsi      |-> rsi_crossunder \/ Lt(i.rsi, 48),
         bullish_stoch    |-> Gt(i.stoch_k, 20) /\ (stoch_crossover \/ Gt(i.stoch_k, 45)),
         bearish_stoch    |-> Lt(i.stoch_k, 80) /\ (stoch_crossunder \/ Lt(i.stoch_k, 55)),
         bullish_price    |-> price * 1000 > i.basis_kc * 1001,
         bearish_price    |-> price * 1000 < i.basis_kc * 999,
         bullish_ema      |-> i.ema100 * 1000 > i.ema200 * 1001,
         bearish_ema      |-> i.ema100 * 1000 < i.ema200 * 999,
         bullish_momentum |-> momentum_num > close_20,
         bearish_momentum |-> momentum_num < 0 - close_20,
         not_overbought   |-> Lt(i.rsi, 70) /\ Lt(i.stoch_k, 80),
         not_oversold     |-> Gt(i.rsi, 30) /\ Gt(i.stoch_k, 20),
         price_momentum   |-> RoundDiv(momentum_num * 100, close_20)]

Count(bools) == Cardinality({k \in DOMAIN bools : bools[k]})

Votes(f) ==
    [bullish_points |-> Count(<< f.bullish_rsi, f.bullish_stoch, f.bullish_price,
                                 f.bullish_ema, f.bullish_momentum >>),
     bearish_points |-> Count(<< f.bearish_rsi, f.bearish_stoch, f.bearish_price,
                                 f.bearish_ema, f.bearish_momentum >>)]

\* max(bullish_points, bearish_points) / 5 * 100
VoteConfidence(v) == (Max2(v.bullish_points, v.bearish_points) * 100) \div 5

\* the rule of the ladder that fires
RuleSellFirst(f, v) ==
    IF f.bullish_price /\ f.bullish_ema /\ f.bullish_momentum THEN "strong_buy"
    ELSE IF f.bearish_price /\ f.bearish_ema /\ f.bearish_momentum THEN "strong_sell"
    ELSE IF v.bearish_points >= 2 /\ f.not_oversold THEN "medium_sell"
    ELSE IF v.bullish_points >= 2 /\ f.not_overbought THEN "medium_buy"
    ELSE "none"
Rule(f, v) ==
    IF f.bullish_price /\ f.bullish_ema /\ f.bullish_momentum THEN "strong_buy"
    ELSE IF f.bearish_price /\ f.bearish_ema /\ f.bearish_momentum THEN "strong_sell"
    ELSE IF v.bullish_points >= 2 /\ f.not_overbought THEN "medium_buy"
    ELSE IF v.bearish_points >= 2 /\ f.not_oversold THEN "medium_sell"
    ELSE "none"

SignalOrHold(rule) ==
    CASE rule \in {"strong_buy", "medium_buy"}   -> "BUY"
      [] rule \in {"strong_sell", "medium_sell"} -> "SELL"
      [] OTHER                                   -> "HOLD"
SignalOf(rule) ==
    CASE rule \in {"strong_buy", "medium_buy"}   -> "BUY"
      [] rule \in {"strong_sell", "medium_sell"} -> "SELL"
      [] OTHER                                   -> "NO SIGNAL"

ConfidenceUnfloored(rule, v) == VoteConfidence(v)
ConfidenceOf(rule, v) ==
    IF rule \in {"strong_buy", "strong_sell"}
    THEN Max2(STRONG_FLOOR, VoteConfidence(v))
    ELSE VoteConfidence(v)

\* stage 5: sl and tp from the zones and the price
RiskLevelsDefault(rule, z, price) ==
    CASE rule \in {"strong_buy", "medium_buy"} ->
            [sl |-> Min2(z.support[1], Scale(price, 98, 100)),
             tp |-> Max2(z.resistance[2], Scale(price, 102, 100))]
      [] rule \in {"strong_sell", "medium_sell"} ->
            [sl |-> Max2(z.resistance[2], Scale(price, 102, 100)),
             tp |-> Min2(z.support[1], Scale(price, 98, 100))]
      [] OTHER -> [sl |-> Scale(price, 98, 100), tp |-> Scale(price, 102, 100)]
RiskLevels(rule, z, price) ==
    CASE rule = "strong_buy"  ->
            [sl |-> Min2(z.support[1], Scale(price, 985, 1000)),
             tp |-> Max2(z.resistance[2], Scale(price, 1015, 1000))]
      [] rule = "strong_sell" ->
            [sl |-> Max2(z.resistance[2], Scale(price, 1015, 1000)),
             tp |-> Min2(z.support[1], Scale(price, 985, 1000))]
      [] rule = "medium_buy"  ->
            [sl |-> Min2(z.support[1], Scale(price, 98, 100)),
             tp |-> Max2(z.resistance[2], Scale(price, 102, 100))]
      [] rule = "medium_sell" ->
            [sl |-> Max2(z.resistance[2], Scale(price, 102, 100)),
             tp |-> Min2(z.support[1], Scale(price, 98, 100))]
      [] OTHER -> [sl |-> None, tp |-> None]

\* stage 6: forecast refinement
Min3(a, b, c) == Min2(Min2(a, b), c)
Max3(a, b, c) == Max2(Max2(a, b), c)

ForecastReplace(signal, cur, z, price, forecast) ==
    IF signal = "NO SIGNAL" \/ forecast = << >>
    THEN cur
    ELSE LET yhat == Column(forecast, "yhat")
         IN  IF signal = "BUY"
             THEN [sl |-> SeqMin(Column(forecast, "yhat_lower")), tp |-> Quantile(yhat, 3, 4)]
             ELSE [sl |-> SeqMax(Column(forecast, "yhat_upper")), tp |-> Quantile(yhat, 1, 4)]
ForecastRefine(signal, cur, z, price, forecast) ==
    IF signal = "NO SIGNAL" \/ forecast = << >>
    THEN cur
    ELSE LET yhat        == Column(forecast, "yhat")
             forecast_tp == IF signal = "BUY" THEN Quantile(yhat, 3, 4) ELSE Quantile(yhat, 1, 4)
             forecast_sl == IF signal = "BUY" THEN SeqMin(Column(forecast, "yhat_lower"))
                            ELSE SeqMax(Column(forecast, "yhat_upper"))
         IN  IF signal = "BUY"
             THEN [sl |-> Min3(forecast_sl, z.support[1], Scale(price, 98, 100)),
                   tp |-> Max3(forecast_tp, z.resistance[2], Scale(price, 102, 100))]
             ELSE [sl |-> Max3(forecast_sl, z.resistance[2], Scale(price, 102, 100)),
                   tp |-> Min3(forecast_tp, z.support[1], Scale(price, 98, 100))]

\* stage 7: risk-reward normalization of tp
NormalizedTpAbove(signal, price, risk) == price + Scale(risk, 3, 2)
NormalizedTp(signal, price, risk) ==
    IF signal = "BUY" THEN price + Scale(risk, 3, 2) ELSE price - Scale(risk, 3, 2)
RiskRewardOneToOne(signal, cur, price) ==
    IF signal = "NO SIGNAL"
    THEN cur.tp
    ELSE LET risk   == Abs(price - cur.sl)
             reward == Abs(cur.tp - price)
         IN  IF risk > 0 /\ reward < risk
             THEN IF signal = "BUY" THEN price + risk ELSE price - risk
             ELSE cur.tp
RiskRewardTp(signal, cur, price) ==
    IF signal = "NO SIGNAL"
    THEN cur.tp
    ELSE LET risk   == Abs(price - cur.sl)
             reward == Abs(cur.tp - price)
         IN  IF risk > 0 /\ reward * 2 < risk * 3
             THEN NormalizedTp(signal, price, risk)
             ELSE cur.tp

\* stage 8: the breakout simulation

\* df.copy(): the reference a copy is bound to is that of a fresh object
AliasRef(ref, fresh) == ref
CopyRef(ref, fresh) == fresh

\* the three writes to the last row of a copy
OverwriteLast(rows, price) ==
    [rows EXCEPT ![Len(rows)] =
        [@ EXCEPT !.Close = price, !.High = Max2(@, price), !.Low = Min2(@, price)]]

BullishClose(z) == Scale(z.resistance[2], 101, 100)
BearishClose(z) == Scale(z.support[1], 99, 100)

\* the heap after both copies were made and written
SimulationHeap(h, ref, bull, bear, z) ==
    LET h1 == [h EXCEPT ![BULL_COPY] = h[ref]]
        h2 == [h1 EXCEPT ![BEAR_COPY] = h1[ref]]
        h3 == [h2 EXCEPT ![bull] = OverwriteLast(h2[bull], BullishClose(z))]
    IN  [h3 EXCEPT ![bear] = OverwriteLast(h3[bear], BearishClose(z))]

BullishSignalEither(lib) ==
    IF Gt(lib.rsi_bull, 52) \/ Gt(lib.stoch_bull, 45) THEN "BUY" ELSE "NO SIGNAL"
BullishSignal(lib) ==
    IF Gt(lib.rsi_bull, 52) /\ Gt(lib.stoch_bull, 45) THEN "BUY" ELSE "NO SIGNAL"
BearishSignal(lib) ==
    IF Lt(lib.rsi_bear, 48) /\ Lt(lib.stoch_bear, 55) THEN "SELL" ELSE "NO SIGNAL"

Simulation(lib, z, price, forecast) ==
    LET bullish_signal == BullishSignal(lib)
        bearish_signal == BearishSignal(lib)
        refine         == (bullish_signal = "BUY" \/ bearish_signal = "SELL") /\ forecast # << >>
        yhat           == Column(forecast, "yhat")
        bull_tp        == IF bullish_signal # "BUY" THEN NA
                          ELSE IF refine
                          THEN Max2(Quantile(yhat, 3, 4), Scale(z.resistance[2], 103, 100))
                          ELSE Scale(z.resistance[2], 103, 100)
        bull_sl        == IF bullish_signal = "BUY" THEN Scale(price, 98, 100) ELSE NA
        bear_tp        == IF bearish_signal # "SELL" THEN NA
                          ELSE IF refine
                          THEN Min2(Quantile(yhat, 1, 4), Scale(z.support[1], 97, 100))
                          ELSE Scale(z.support[1], 97, 100)
        bear_sl        == IF bearish_signal = "SELL" THEN Scale(price, 102, 100) ELSE NA
    IN  [rsi_bull |-> lib.rsi_bull, stoch_bull |-> lib.stoch_bull,
         rsi_bear |-> lib.rsi_bear, stoch_bear |-> lib.stoch_bear,
         bullish_signal |-> bullish_signal, bearish_signal |-> bearish_signal,
         bull_tp |-> bull_tp, bull_sl |-> bull_sl, bear_tp |-> bear_tp, bear_sl |-> bear_sl,
         bull_tp_str |-> format_price(bull_tp), bull_sl_str |-> format_price(bull_sl),
         bear_tp_str |-> format_price(bear_tp), bear_sl_str |-> format_price(bear_sl)]

\* the report

\* a field of a breakout scenario: its value when the decision is NO SIGNAL
BreakoutFieldInverted(signal, value) == IF signal # "NO SIGNAL" THEN value ELSE PyNone
BreakoutField(signal, value) == IF signal = "NO SIGNAL" THEN value ELSE PyNone

BreakoutObject(signal, s) ==
    LET get(field) == IF s = << >> THEN PyNone ELSE s[field]
        num(field) == IF s = << >> THEN PyNone ELSE format_strategy_number(s[field])
        sig(field) == IF s = << >> THEN PyNone ELSE Str(s[field])
    IN  [bullish |-> [rsi        |-> BreakoutField(signal, num("rsi_bull")),
                      stochastic |-> BreakoutField(signal, num("stoch_bull")),
                      signal     |-> BreakoutField(signal, sig("bullish_signal")),
                      tp         |-> BreakoutField(signal, get("bull_tp_str")),
                      sl         |-> BreakoutField(signal, get("bull_sl_str"))],
         bearish |-> [rsi        |-> BreakoutField(signal, num("rsi_bear")),
                      stochastic |-> BreakoutField(signal, num("stoch_bear")),
                      signal     |-> BreakoutField(signal, sig("bearish_signal")),
                      tp         |-> BreakoutField(signal, get("bear_tp_str")),
                      sl         |-> BreakoutField(signal, get("bear_sl_str"))]]

ConfidenceStatus(c) ==
    [percent |-> NumStr("", 1, c * 10),
     label   |-> IF c >= 70 THEN "High" ELSE IF c >= 50 THEN "Medium" ELSE "Low"]

FloatOrZero(x) == IF x # None THEN x ELSE 0

SnapshotObject(signal, price, levels_now, i, f, c, z, s) ==
    [status        |-> signal,
     current_price |-> price,
     tp            |-> FloatOrZero(levels_now.tp),
     sl            |-> FloatOrZero(levels_now.sl),
     indicators    |->
        [rsi        |-> [value |-> format_strategy_number(i.rsi),
                         trend |-> IF f.bullish_rsi THEN "Bullish Trend" ELSE "Bearish Trend"],
         stochastic |-> [k |-> format_strategy_number(i.stoch_k),
                         d |-> format_strategy_number(i.stoch_d),
                         trend |-> IF f.bullish_stoch THEN "Bullish Trend" ELSE "Bearish Trend"],
         ema        |-> IF f.bullish_ema THEN "EMA100 Higher (Bullish)"
                        ELSE IF f.bearish_ema THEN "EMA200 Higher (Bearish)"
                        ELSE "EMAs Neutral",
         keltner    |-> [where |-> IF price > i.upper_kc THEN "Above Upper"
                                   ELSE IF price < i.lower_kc THEN "Below Lower"
                                   ELSE "Within",
                         upper |-> format_price(i.upper_kc),
                         lower |-> format_price(i.lower_kc)],
         momentum   |-> [percent |-> f.price_momentum,
                         label   |-> IF f.bullish_momentum THEN "Bullish"
                                     ELSE IF f.bearish_momentum THEN "Bearish"
                                     ELSE "Neutral"],
         confidence |-> ConfidenceStatus(c)],
     support_zone    |-> << format_price(z.support[1]), format_price(z.support[2]) >>,
     resistance_zone |-> << format_price(z.resistance[1]), format_price(z.resistance[2]) >>,
     breakout        |-> BreakoutObject(signal, s)]

\* the keys of the dict run_strategy returns
StrategyDict(signal, levels_now, chart_base64, snapshot) ==
    [signal       |-> signal,
     tp           |-> FloatOrZero(levels_now.tp),
     sl           |-> FloatOrZero(levels_now.sl),
     chart_base64 |-> chart_base64,
     snapshot     |-> snapshot]

\* generate_chart_snapshot opens the chart file for writing, which truncates it,
\* and writes the placeholder; run_strategy reads the file back.  A file is
\* the sequence of the chunks written to it.
CHART_PLACEHOLDER == "Chart placeholder"
AppendChart(old) == Append(old, CHART_PLACEHOLDER)
generate_chart_snapshot(old) == << CHART_PLACEHOLDER >>
ChartBase64(content) == [prefix |-> "data:image/png;base64,", payload |-> content]

----------------------------------------------------------------------------
(* State machine *)

Unset == << >>
NoLevels == [sl |-> None, tp |-> None]
NoHistory == [sl5 |-> None, tp5 |-> None, sl6 |-> None, tp6 |-> None]
PAIR == "BTCUSDT"

Rows == heap[df.ref]

\* the locals of run_strategy before it runs
FreshLocals ==
    /\ ind' = Unset
    /\ zones' = Unset
    /\ current_price' = None
    /\ flags' = Unset
    /\ vote' = Unset
    /\ confidence' = None
    /\ signal_type' = "NO SIGNAL"
    /\ sl' = None
    /\ tp' = None
    /\ levels' = NoHistory
    /\ df_bullish' = NoFrame
    /\ df_bearish' = NoFrame
    /\ sim' = Unset

Init ==
    /\ pc = "start"
    /\ entry = "none"
    /\ heap = EmptyHeap
    /\ df = NoFrame
    /\ df_in = Unset
    /\ calls = 0
    /\ ta = Unset
    /\ taSim = Unset
    /\ ind = Unset
    /\ zones = Unset
    /\ current_price = None
    /\ flags = Unset
    /\ vote = Unset
    /\ confidence = None
    /\ signal_type = "NO SIGNAL"
    /\ sl = None
    /\ tp = None
    /\ levels = NoHistory
    /\ df_bullish = NoFrame
    /\ df_bearish = NoFrame
    /\ sim = Unset
    /\ chartFile = << >>
    /\ result = Unset
    /\ prev_result = Unset
    /\ stdout = << >>
    /\ stderr = << >>
    /\ exit_code = None
    /\ unit = Unset

\* a library user calls run_strategy on a series of any length, or on None
DirectCall ==
    /\ pc = "start"
    /\ UNCHANGED unit
    /\ entry' = "direct"
    /\ \/ /\ df' = NoFrame
          /\ heap' = heap
       \/ \E prices \in FullLists \cup ShortLists \cup ZeroLists \cup GentleLists :
             /\ df' = Frame(ORIGINAL, PAIR)
             /\ heap' = [heap EXCEPT ![ORIGINAL] = OHLC(prices)]
    /\ pc' = "run_strategy"
    /\ UNCHANGED << df_in, calls, ta, taSim, ind, zones, current_price, flags, vote,
                    confidence, signal_type, sl, tp, levels, df_bullish, df_bearish,
                    sim, chartFile, result, prev_result, stdout, stderr, exit_code >>

\* run_strategy, entry and length guard
Guard ==
    /\ pc = "run_strategy"
    /\ UNCHANGED unit
    /\ calls' = calls + 1
    /\ df_in' = IF df.present THEN Rows ELSE Unset
    /\ IF GuardInsufficient(df, heap)
       THEN /\ result' = GuardResult("Error: Failed to fetch candle data")
            /\ pc' = "returned"
       ELSE /\ result' = Unset
            /\ pc' = "indicators"
    /\ UNCHANGED << entry, heap, df, ta, taSim, ind, zones, current_price, flags, vote,
                    confidence, signal_type, sl, tp, levels, df_bullish, df_bearish,
                    sim, chartFile, prev_result, stdout, stderr, exit_code >>

\* indicators, the EMA and Keltner guards, zones and current price
Indicators ==
    /\ pc = "indicators"
    /\ UNCHANGED unit
    /\ \E lib \in (IF ta = Unset THEN TaOutputs ELSE {ta}) :
          LET i == Snapshot(Rows, lib)
          IN  /\ ta' = lib
              /\ ind' = i
              /\ IF InvalidEma(i)
                 THEN /\ result' = GuardResult("Error: Invalid EMA data")
                      /\ pc' = "returned"
                      /\ UNCHANGED << zones, current_price >>
                 ELSE IF InvalidKeltner(i.upper_kc, i.lower_kc)
                 THEN /\ result' = GuardResult("Error: Invalid Keltner data")
                      /\ pc' = "returned"
                      /\ UNCHANGED << zones, current_price >>
                 ELSE /\ zones' = detect_support_resistance_zones(Rows, LOOKBACK)
                      /\ current_price' = LastClose(Rows)
                      /\ pc' = "signal"
                      /\ UNCHANGED result
    /\ UNCHANGED << entry, heap, df, df_in, calls, taSim, flags, vote, confidence,
                    signal_type, sl, tp, levels, df_bullish, df_bearish, sim, chartFile,
                    prev_result, stdout, stderr, exit_code >>

\* features, votes, decision ladder and stage-5 risk levels
Signal ==
    /\ pc = "signal"
    /\ UNCHANGED unit
    /\ LET f    == Features(ind, current_price, Rows[Len(Rows) - MOMENTUM_LAG + 1].Close)
           v    == Votes(f)
           rule == Rule(f, v)
           lv   == RiskLevels(rule, zones, current_price)
       IN  /\ flags' = f
           /\ vote' = v
           /\ confidence' = ConfidenceOf(rule, v)
           /\ signal_type' = SignalOf(rule)
           /\ sl' = lv.sl
           /\ tp' = lv.tp
           /\ levels' = [levels EXCEPT !.sl5 = lv.sl, !.tp5 = lv.tp]
    /\ pc' = "forecast"
    /\ UNCHANGED << entry, heap, df, df_in, calls, ta, taSim, ind, zones, current_price,
                    df_bullish, df_bearish, sim, chartFile, result, prev_result,
                    stdout, stderr, exit_code >>

Forecast ==
    /\ pc = "forecast"
    /\ UNCHANGED unit
    /\ LET lv == ForecastRefine(signal_type, [sl |-> sl, tp |-> tp], zones, current_price,
                                forecast_prices(Rows, FORECAST_PERIODS))
       IN  /\ sl' = lv.sl
           /\ tp' = lv.tp
           /\ levels' = [levels EXCEPT !.sl6 = lv.sl, !.tp6 = lv.tp]
    /\ pc' = "risk_reward"
    /\ UNCHANGED << entry, heap, df, df_in, calls, ta, taSim, ind, zones, current_price,
                    flags, vote, confidence, signal_type, df_bullish, df_bearish, sim,
                    chartFile, result, prev_result, stdout, stderr, exit_code >>

RiskReward ==
    /\ pc = "risk_reward"
    /\ UNCHANGED unit
    /\ tp' = RiskRewardTp(signal_type, [sl |-> sl, tp |-> tp], current_price)
    /\ pc' = "breakout"
    /\ UNCHANGED << entry, heap, df, df_in, calls, ta, taSim, ind, zones, current_price,
                    flags, vote, confidence, signal_type, sl, levels, df_bullish,
                    df_bearish, sim, chartFile, result, prev_result, stdout, stderr,
                    exit_code >>

\* the breakout simulation, run only when the decision is NO SIGNAL
Breakout ==
    /\ pc = "breakout"
    /\ UNCHANGED unit
    /\ IF signal_type = "NO SIGNAL"
       THEN \E lib \in (IF taSim = Unset THEN SimOutputs ELSE {taSim}) :
               LET bull == CopyRef(df.ref, BULL_COPY)
                   bear == CopyRef(df.ref, BEAR_COPY)
                   h    == SimulationHeap(heap, df.ref, bull, bear, zones)
               IN  /\ taSim' = lib
                   /\ df_bullish' = Frame(bull, "")
                   /\ df_bearish' = Frame(bear, "")
                   /\ heap' = h
                   /\ sim' = Simulation(lib, zones, current_price,
                                        forecast_prices(h[df.ref], FORECAST_PERIODS))
       ELSE UNCHANGED << taSim, df_bullish, df_bearish, heap, sim >>
    /\ pc' = "report"
    /\ UNCHANGED << entry, df, df_in, calls, ta, ind, zones, current_price, flags, vote,
                    confidence, signal_type, sl, tp, levels, chartFile, result,
                    prev_result, stdout, stderr, exit_code >>

\* chart, snapshot object and return value
Report ==
    /\ pc = "report"
    /\ UNCHANGED unit
    /\ chartFile' = generate_chart_snapshot(chartFile)
    /\ result' =
          [dict |-> StrategyDict(signal_type, [sl |-> sl, tp |-> tp],
                                 ChartBase64(chartFile'),
                                 SnapshotObject(signal_type, current_price,
                                                [sl |-> sl, tp |-> tp], ind, flags,
                                                confidence, zones, sim)),
           success |-> TRUE]
    /\ pc' = "returned"
    /\ UNCHANGED << entry, heap, df, df_in, calls, ta, taSim, ind, zones, current_price,
                    flags, vote, confidence, signal_type, sl, tp, levels, df_bullish,
                    df_bearish, sim, prev_result, stdout, stderr, exit_code >>

\* the library user calls run_strategy again on the series it still holds
CallAgain ==
    /\ pc = "returned"
    /\ UNCHANGED unit
    /\ entry = "direct"
    /\ calls < MaxCalls
    /\ prev_result' = result
    /\ result' = Unset
    /\ FreshLocals
    /\ heap' = [heap EXCEPT ![BULL_COPY] = << >>, ![BEAR_COPY] = << >>]
    /\ pc' = "run_strategy"
    /\ UNCHANGED << entry, df, df_in, calls, ta, taSim, chartFile, stdout, stderr,
                    exit_code >>

----------------------------------------------------------------------------
(* The CLI wrapper main *)

\* dict.get(key, default)
DictGet(d, key, default) == IF key \in DOMAIN d THEN d[key] ELSE default

\* safe_extract_rsi / safe_extract_stoch: the number printed in a report
\* string, None when float() rejects the text
SafeExtract(printed) == IF printed.text = "N/A" THEN None ELSE printed.value

ErrorDoc(error, message) == [error |-> error, message |-> message]

Response(d, n_points, price_data) ==
    [pair       |-> PAIR,
     signal     |-> d.signal,
     confidence |-> DictGet(d, "confidence", DEFAULT_CONFIDENCE),
     indicators |-> [rsi     |-> SafeExtract(d.snapshot.indicators.rsi.value),
                     stoch_k |-> SafeExtract(d.snapshot.indicators.stochastic.k),
                     stoch_d |-> SafeExtract(d.snapshot.indicators.stochastic.d),
                     current_price |-> d.snapshot.current_price],
     last_price |-> IF price_data = None THEN d.snapshot.current_price ELSE price_data,
     data_points |-> n_points,
     strategy_details |->
        [tp |-> d.tp, sl |-> d.sl,
         support_zone     |-> d.snapshot.support_zone,
         resistance_zone  |-> d.snapshot.resistance_zone,
         ema_trend        |-> d.snapshot.indicators.ema,
         keltner_status   |-> d.snapshot.indicators.keltner,
         momentum         |-> d.snapshot.indicators.momentum,
         confidence_level |-> d.snapshot.indicators.confidence]]

\* argument check
MainStart ==
    /\ pc = "start"
    /\ UNCHANGED unit
    /\ \E has_pair \in BOOLEAN :
          IF has_pair
          THEN /\ entry' = "cli"
               /\ pc' = "main_fetch"
               /\ UNCHANGED << stdout, exit_code >>
          ELSE /\ entry' = "cli"
               /\ stdout' = Append(stdout, ErrorDoc("Trading pair is required", ""))
               /\ exit_code' = 1
               /\ pc' = "exit"
    /\ UNCHANGED << heap, df, df_in, calls, ta, taSim, ind, zones, current_price, flags,
                    vote, confidence, signal_type, sl, tp, levels, df_bullish,
                    df_bearish, sim, chartFile, result, prev_result, stderr >>

\* get_coingecko_market_data: None (request failed, no prices, fewer than 50
\* points) or the synthesised OHLC frame
MainFetch ==
    /\ pc = "main_fetch"
    /\ UNCHANGED unit
    /\ \/ /\ stdout' = Append(stdout, ErrorDoc("Unable to fetch data", "Cryptocurrency not found"))
          /\ exit_code' = 1
          /\ pc' = "exit"
          /\ UNCHANGED << heap, df >>
       \/ \E prices \in FullLists :
             /\ df' = Frame(ORIGINAL, PAIR)
             /\ heap' = [heap EXCEPT ![ORIGINAL] = OHLC(prices)]
             /\ pc' = "run_strategy"
             /\ UNCHANGED << stdout, exit_code >>
    /\ UNCHANGED << entry, df_in, calls, ta, taSim, ind, zones, current_price, flags,
                    vote, confidence, signal_type, sl, tp, levels, df_bullish,
                    df_bearish, sim, chartFile, result, prev_result, stderr >>

\* after run_strategy: the error document or the response
MainRespond ==
    /\ pc = "returned"
    /\ UNCHANGED unit
    /\ entry = "cli"
    /\ IF ~result.success
       THEN /\ stdout' = Append(stdout, ErrorDoc("Strategy analysis failed",
                                                 result.dict.snapshot.error))
            /\ exit_code' = 1
       ELSE \E price_data \in {None, LevelMid} :
               /\ stdout' = Append(stdout, Response(result.dict, Len(Rows), price_data))
               /\ exit_code' = 0
    /\ pc' = "exit"
    /\ UNCHANGED << entry, heap, df, df_in, calls, ta, taSim, ind, zones, current_price,
                    flags, vote, confidence, signal_type, sl, tp, levels, df_bullish,
                    df_bearish, sim, chartFile, result, prev_result, stderr >>

\* an exception raised under main's try: calculate_rsi and
\* calculate_stochastic pass on whatever the indicator library raises, and so
\* does run_strategy
MainExcept ==
    /\ pc = "indicators"
    /\ UNCHANGED unit
    /\ entry = "cli"
    /\ stderr' = Append(stderr, ErrorDoc("Analysis failed", ""))
    /\ exit_code' = 1
    /\ pc' = "exit"
    /\ UNCHANGED << entry, heap, df, df_in, calls, ta, taSim, ind, zones, current_price,
                    flags, vote, confidence, signal_type, sl, tp, levels, df_bullish,
                    df_bearish, sim, chartFile, result, prev_result, stdout >>

Next ==
    \/ DirectCall
    \/ MainStart
    \/ MainFetch
    \/ Guard
    \/ Indicators
    \/ Signal
    \/ Forecast
    \/ RiskReward
    \/ Breakout
    \/ Report
    \/ CallAgain
    \/ MainRespond
    \/ MainExcept

Spec == Init /\ [][Next]_vars

----------------------------------------------------------------------------
(* The helpers called on their own, on a series of any length *)

\* lengths around the upper clamps of the EMA windows
LongLengths == {299, 300, 302, 303, 399, 400, 401, 402}

\* series of every length 0..MaxShortLen, flat at m up to a last close d that
\* may be 0, and flat series of the long lengths
UnitSeries ==
    {OHLC(PriceList(n, 1, m, d)) : n \in 0..MaxShortLen, m \in Prices, d \in 0..MaxPrice}
        \cup {OHLC(PriceList(n, 1, 1, 1)) : n \in LongLengths}

\* what the library may return for the EMAs and the bands, or raise
EmaRaws == EmaTails \cup {[ema100 |-> Raise, ema200 |-> Raise],
                          [ema100 |-> 0, ema200 |-> NaN]}
KeltnerRaws == KeltnerTails \cup {[upper |-> Raise, basis |-> Raise, lower |-> Raise],
                                  [upper |-> 0, basis |-> NaN, lower |-> 0]}
RequestedPeriods == {3, 7, KELTNER_PERIOD}
Lookbacks == {5, LOOKBACK}
ForecastLengths == {1, 3, FORECAST_PERIODS}

UnitInit ==
    /\ pc = "unit"
    /\ entry = "direct"
    /\ \E rows \in UnitSeries : heap = [EmptyHeap EXCEPT ![ORIGINAL] = rows]
    /\ df = Frame(ORIGINAL, PAIR)
    /\ df_in = Unset
    /\ calls = 0
    /\ ta = Unset
    /\ taSim = Unset
    /\ ind = Unset
    /\ zones = Unset
    /\ current_price = None
    /\ flags = Unset
    /\ vote = Unset
    /\ confidence = None
    /\ signal_type = "NO SIGNAL"
    /\ sl = None
    /\ tp = None
    /\ levels = NoHistory
    /\ df_bullish = NoFrame
    /\ df_bearish = NoFrame
    /\ sim = Unset
    /\ chartFile = << >>
    /\ result = Unset
    /\ prev_result = Unset
    /\ stdout = << >>
    /\ stderr = << >>
    /\ exit_code = None
    /\ unit = Unset

UnitFrame ==
    UNCHANGED << entry, heap, df, df_in, calls, ta, taSim, ind, zones, current_price,
                 flags, vote, confidence, signal_type, sl, tp, levels, df_bullish,
                 df_bearish, sim, chartFile, result, prev_result, stdout, stderr,
                 exit_code >>

CallCalculateEma ==
    /\ pc = "unit"
    /\ \E raw \in EmaRaws :
          unit' = [fn |-> "calculate_ema", raw |-> raw,
                   periods |-> EmaPeriods(Len(Rows)),
                   ret |-> calculate_ema(Rows, raw)]
    /\ pc' = "unit_returned"
    /\ UnitFrame

CallCalculateKeltner ==
    /\ pc = "unit"
    /\ \E raw \in KeltnerRaws, period \in RequestedPeriods :
          unit' = [fn |-> "calculate_keltner_channels", raw |-> raw, period |-> period,
                   actual_period |-> KeltnerPeriod(Len(Rows), period),
                   ret |-> calculate_keltner_channels(Rows, raw)]
    /\ pc' = "unit_returned"
    /\ UnitFrame

CallDetectZones ==
    /\ pc = "unit"
    /\ \E lookback \in Lookbacks :
          unit' = [fn |-> "detect_support_resistance_zones", lookback |-> lookback,
                   ret |-> detect_support_resistance_zones(Rows, lookback)]
    /\ pc' = "unit_returned"
    /\ UnitFrame

CallForecastPrices ==
    /\ pc = "unit"
    /\ \E periods \in ForecastLengths :
          unit' = [fn |-> "forecast_prices", periods |-> periods,
                   ret |-> forecast_prices(Rows, periods)]
    /\ pc' = "unit_returned"
    /\ UnitFrame

UnitNext ==
    \/ CallCalculateEma
    \/ CallCalculateKeltner
    \/ CallDetectZones
    \/ CallForecastPrices

UnitSpec == UnitInit /\ [][UnitNext]_vars

----------------------------------------------------------------------------
(* Properties of run_strategy and main *)

Signals == {"BUY", "SELL", "NO SIGNAL"}
Scenarios == {"bullish", "bearish"}
ScenarioFields == {"rsi", "stochastic", "signal", "tp", "sl"}

\* run_strategy has returned (and, under main, the process may have exited)
Returned == pc \in {"returned", "exit"} /\ result # Unset
Evaluated == Returned /\ result.success

StrongBuy == flags.bullish_price /\ flags.bullish_ema /\ flags.bullish_momentum
StrongSell == flags.bearish_price /\ flags.bearish_ema /\ flags.bearish_momentum

\* C1: whenever a BUY or SELL is returned, the distance from the current price
\* to tp is at least 1.5 times the distance to sl (which is not zero), and it
\* is exactly 1.5 times that distance when the tp that came out of the
\* forecast stage was closer than that.
C1_RiskRewardAtLeastThreeHalves ==
    (Evaluated /\ result.dict.signal \in {"BUY", "SELL"}) =>
        LET price  == result.dict.snapshot.current_price
            risk   == Abs(price - result.dict.sl)
            reward == Abs(result.dict.tp - price)
            raw    == Abs(levels.tp6 - price)
        IN  /\ risk > 0
            /\ reward * 2 >= risk * 3
            /\ (raw * 2 < risk * 3) => (reward * 2 = risk * 3)

C1_Normalized ==
    /\ Evaluated
    /\ result.dict.signal = "SELL"
    /\ Abs(levels.tp6 - current_price) * 2 < Abs(current_price - result.dict.sl) * 3
    /\ result.dict.tp # levels.tp6

\* C2: a call on a missing series or on one of fewer than 50 candles returns
\* NO SIGNAL with tp and sl 0, success False, and the indicator library was
\* never asked for anything.
C2_ShortSeriesIsGuarded ==
    (pc = "returned" /\ (~df.present \/ Len(Rows) < CANDLE_LIMIT)) =>
        /\ result.dict.signal = "NO SIGNAL"
        /\ result.dict.tp = 0
        /\ result.dict.sl = 0
        /\ ~result.success
        /\ ta = Unset
        /\ ind = Unset

C2_FortyNineCandles ==
    /\ pc = "returned"
    /\ df.present
    /\ Len(Rows) = CANDLE_LIMIT - 1
    /\ result.dict.signal = "NO SIGNAL"
    /\ ~result.success

\* C3: the decision is always one of BUY, SELL and NO SIGNAL: in the local
\* variable, in the returned dict, in the status of the report, and in every
\* response main prints.
C3_SignalIsOneOfThree ==
    /\ signal_type \in Signals
    /\ Returned => result.dict.signal \in Signals
    /\ Evaluated => result.dict.snapshot.status = result.dict.signal
    /\ \A k \in DOMAIN stdout :
          "signal" \in DOMAIN stdout[k] => stdout[k].signal \in Signals

C3_ResponsePrinted ==
    /\ pc = "exit"
    /\ exit_code = 0
    /\ Len(stdout) = 1
    /\ stdout[1].signal = "SELL"
    /\ result.dict.snapshot.status = "SELL"

\* C4: the confidence computed by the voting stage lies in 0..100, and is at
\* least 70 whenever a strong rule fired.
C4_ConfidenceInRange ==
    flags # Unset =>
        /\ confidence >= 0
        /\ confidence <= 100
        /\ (StrongBuy \/ StrongSell) => confidence >= STRONG_FLOOR

C4_FloorApplied ==
    /\ pc = "returned"
    /\ flags # Unset
    /\ StrongBuy
    /\ VoteConfidence(vote) = 60
    /\ confidence = STRONG_FLOOR

\* C5 as stated: the breakout block is populated exactly when the decision is
\* NO SIGNAL, and when a decision fired the bullish and bearish sub-objects
\* are absent.
C5_SubObjectsAbsent ==
    Evaluated =>
        LET b == result.dict.snapshot.breakout
            populated == \A side \in Scenarios : \A field \in ScenarioFields :
                            b[side][field] # PyNone
            absent(side) == side \notin DOMAIN b \/ b[side] = PyNone
        IN  /\ (result.dict.signal = "NO SIGNAL") <=> populated
            /\ result.dict.signal # "NO SIGNAL" => \A side \in Scenarios : absent(side)

\* C5: in every report the breakout block has both the bullish and the
\* bearish sub-object, each with the fields rsi, stochastic, signal, tp and
\* sl; every one of these fields holds a value when the decision is NO SIGNAL
\* and every one is None when the decision is BUY or SELL.
C5_ScenarioFieldsNoneUnlessNoSignal ==
    Evaluated =>
        LET b == result.dict.snapshot.breakout
        IN  /\ DOMAIN b = Scenarios
            /\ \A side \in Scenarios :
                  /\ DOMAIN b[side] = ScenarioFields
                  /\ \A field \in ScenarioFields :
                        (b[side][field] # PyNone) <=> (result.dict.signal = "NO SIGNAL")

C5_DecisionFired ==
    /\ Evaluated
    /\ result.dict.signal = "BUY"
    /\ DOMAIN result.dict.snapshot.breakout = Scenarios
    /\ result.dict.snapshot.breakout.bullish.rsi = PyNone
    /\ result.dict.snapshot.breakout.bearish.sl = PyNone

\* C6: the decision is that of the first rule of the ladder that matches:
\* (a) price, EMA and momentum bullish: BUY; (b) all three bearish: SELL;
\* (c) two bullish points, RSI below 70 and %K below 80: BUY; (d) two bearish
\* points, RSI above 30 and %K above 20: SELL; else NO SIGNAL.  A strong buy
\* fires whatever RSI and %K are, and (c) wins over (d).
C6_FirstMatchingRule ==
    flags # Unset =>
        LET medium_buy  == vote.bullish_points >= 2 /\ Lt(ind.rsi, 70) /\ Lt(ind.stoch_k, 80)
            medium_sell == vote.bearish_points >= 2 /\ Gt(ind.rsi, 30) /\ Gt(ind.stoch_k, 20)
            expected    == IF StrongBuy THEN "BUY"
                           ELSE IF StrongSell THEN "SELL"
                           ELSE IF medium_buy THEN "BUY"
                           ELSE IF medium_sell THEN "SELL"
                           ELSE "NO SIGNAL"
        IN  /\ signal_type = expected
            /\ StrongBuy => (signal_type = "BUY" /\ confidence >= STRONG_FLOOR)
            /\ Evaluated => result.dict.signal = expected

C6_BothMediumRulesQualify ==
    /\ Evaluated
    /\ flags # Unset
    /\ ~StrongBuy
    /\ ~StrongSell
    /\ vote.bullish_points >= 2 /\ Lt(ind.rsi, 70) /\ Lt(ind.stoch_k, 80)
    /\ vote.bearish_points >= 2 /\ Gt(ind.rsi, 30) /\ Gt(ind.stoch_k, 20)
    /\ result.dict.signal = "BUY"

\* C7 as stated: for each of the five features the bullish and the bearish
\* flag are never both true, so the bullish and bearish points add up to at
\* most 5.
C7_FlagsExclusive ==
    flags # Unset =>
        /\ ~(flags.bullish_rsi /\ flags.bearish_rsi)
        /\ ~(flags.bullish_stoch /\ flags.bearish_stoch)
        /\ ~(flags.bullish_price /\ flags.bearish_price)
        /\ ~(flags.bullish_ema /\ flags.bearish_ema)
        /\ ~(flags.bullish_momentum /\ flags.bearish_momentum)
        /\ vote.bullish_points + vote.bearish_points <= 5

\* C8 as stated: the confidence in the dict run_strategy returns, and in the
\* response main prints, is the confidence of the voting stage.
C8_ConfidenceIsVoteConfidence ==
    /\ Evaluated =>
          /\ "confidence" \in DOMAIN result.dict
          /\ result.dict.confidence = confidence
    /\ \A k \in DOMAIN stdout :
          "signal" \in DOMAIN stdout[k] => stdout[k].confidence = confidence

\* C9: the series passed to run_strategy is the same, row for row, at every
\* point of the call and after it as it was on entry; the two breakout copies
\* are objects of their own, each the input with only its last row rewritten.
C9_InputNeverModified ==
    /\ (df.present /\ calls > 0) => heap[df.ref] = df_in
    /\ df_bullish.present =>
          /\ Cardinality({df.ref, df_bullish.ref, df_bearish.ref}) = 3
          /\ heap[df_bullish.ref] = OverwriteLast(df_in, BullishClose(zones))
          /\ heap[df_bearish.ref] = OverwriteLast(df_in, BearishClose(zones))

C9_CopiesWritten ==
    /\ pc = "returned"
    /\ df_bullish.present
    /\ heap[df_bullish.ref] # heap[df.ref]
    /\ heap[df_bearish.ref] # heap[df.ref]
    /\ heap[df.ref] = df_in

\* C10: a second call of run_strategy on the same series returns the same
\* dict and the same success flag as the first.
C10_SecondCallSameOutput ==
    (pc = "returned" /\ prev_result # Unset) => result = prev_result

C10_SimulatedTwice ==
    /\ pc = "returned"
    /\ calls = 2
    /\ prev_result # Unset
    /\ result.success
    /\ result.dict.signal = "NO SIGNAL"
    /\ sim # Unset
    /\ result = prev_result

\* a guard of run_strategy fired: the series is missing or too short, an EMA
\* is zero, or the upper or lower Keltner band is zero
GuardFired ==
    \/ ~df.present
    \/ Len(Rows) < CANDLE_LIMIT
    \/ /\ ind # Unset
       /\ (ind.ema100 = 0 \/ ind.ema200 = 0 \/ ind.upper_kc = 0 \/ ind.lower_kc = 0)

\* C11: run_strategy returns success False exactly when a guard fired; every
\* evaluation that passes the guards returns success True, whether or not a
\* decision fired and whether or not RSI or %K is NaN.
C11_FailureIffGuard ==
    (pc = "returned") => (~result.success <=> GuardFired)

C11_EmaGuardFired ==
    /\ pc = "returned"
    /\ df.present
    /\ Len(Rows) = CANDLE_LIMIT
    /\ ind # Unset
    /\ ind.ema200 = 0
    /\ ~result.success
    /\ result.dict.snapshot.error = "Error: Invalid EMA data"

\* C12 as stated: when main exits, exactly one JSON document was emitted, on
\* the channel the success document uses (stdout), and the exit status is 0
\* exactly when that document is the response.
C12_OneDocumentOnStdout ==
    (pc = "exit") =>
        /\ Len(stdout) + Len(stderr) = 1
        /\ Len(stderr) = 0
        /\ Len(stdout) = 1
        /\ exit_code \in {0, 1}
        /\ (exit_code = 0) <=> ("signal" \in DOMAIN stdout[1])

\* C13 as stated: when the feature flags are computed none of RSI, %K, %D,
\* the two EMAs and the three Keltner bands is NaN, and the report prints a
\* number for RSI, %K and %D.
C13_NoNaNIndicator ==
    /\ flags # Unset =>
          \A field \in {"rsi", "stoch_k", "stoch_d", "ema100", "ema200",
                        "upper_kc", "basis_kc", "lower_kc"} : NotNa(ind[field])
    /\ Evaluated =>
          /\ result.dict.snapshot.indicators.rsi.value.text # "N/A"
          /\ result.dict.snapshot.indicators.stochastic.k.text # "N/A"
          /\ result.dict.snapshot.indicators.stochastic.d.text # "N/A"

\* a helper was called on its own and has returned (or raised)
UnitCalled(fn) == pc = "unit_returned" /\ unit.fn = fn

\* C14: on a series with a last close p, calculate_ema returns p for an EMA
\* that the library gave as NaN or zero, and for both when the library raised;
\* calculate_keltner_channels returns 1.02 p, p and 0.98 p for an upper, basis
\* and lower band that the library gave as zero or NaN.  When p is not zero
\* nothing returned is zero or NaN, so neither guard of run_strategy holds.
C14_WrapperFallbacks ==
    /\ (UnitCalled("calculate_ema") /\ Len(Rows) > 0) =>
          LET p == LastClose(Rows)
          IN  /\ \A e \in {"ema100", "ema200"} :
                    /\ unit.raw[e] \in {NaN, 0, Raise} => unit.ret[e] = p
                    /\ p # 0 => (unit.ret[e] # 0 /\ NotNa(unit.ret[e]))
              /\ p # 0 => ~InvalidEma(unit.ret)
    /\ (UnitCalled("calculate_keltner_channels") /\ Len(Rows) > 0) =>
          LET p == LastClose(Rows)
          IN  /\ unit.raw.upper \in {NaN, 0} => unit.ret.upper = Scale(p, 102, 100)
              /\ unit.raw.basis \in {NaN, 0} => unit.ret.basis = p
              /\ unit.raw.lower \in {NaN, 0} => unit.ret.lower = Scale(p, 98, 100)
              /\ \A b \in {"upper", "basis", "lower"} :
                    p # 0 => (unit.ret[b] # 0 /\ NotNa(unit.ret[b]))
              /\ p # 0 => ~InvalidKeltner(unit.ret.upper, unit.ret.lower)

C14_ZeroEmaReplaced ==
    /\ UnitCalled("calculate_ema")
    /\ Len(Rows) = CANDLE_LIMIT
    /\ LastClose(Rows) = 2 * PU
    /\ unit.raw.ema200 = 0
    /\ IsNaN(unit.raw.ema100)
    /\ unit.ret = [ema100 |-> 2 * PU, ema200 |-> 2 * PU]

\* C15: forecast_prices returns None on fewer than 10 candles; otherwise it
\* returns `periods` rows, row i with yhat = last + i * (last - first) / 10,
\* first being the first of the last ten closes, yhat_lower = 0.95 yhat and
\* yhat_upper = 1.05 yhat.
C15_ForecastIsLinearTrend ==
    UnitCalled("forecast_prices") =>
        LET n == Len(Rows)
        IN  IF n < 10
            THEN unit.ret = << >>
            ELSE /\ Len(unit.ret) = unit.periods
                 /\ \A i \in 1..unit.periods :
                       LET last  == Rows[n].Close
                           first == Rows[n - 9].Close
                           row   == unit.ret[i]
                       IN  /\ row.yhat * 10 = last * 10 + i * (last - first)
                           /\ row.yhat_lower * 100 = 95 * row.yhat
                           /\ row.yhat_upper * 100 = 105 * row.yhat

C15_RisingTenCandles ==
    /\ UnitCalled("forecast_prices")
    /\ Len(Rows) = 10
    /\ Rows[1].Close = PU
    /\ Rows[10].Close = 2 * PU
    /\ unit.periods = FORECAST_PERIODS
    /\ Len(unit.ret) = FORECAST_PERIODS
    /\ unit.ret[1].yhat = 21 * (PU \div 10)
    /\ unit.ret[FORECAST_PERIODS].yhat = 5 * PU
    /\ unit.ret[FORECAST_PERIODS].yhat_lower = 475 * (PU \div 100)

\* C16 as stated: detect_support_resistance_zones always returns two
\* populated pairs; on a series shorter than the lookback window they are
\* (0.95 p, 0.98 p) and (1.02 p, 1.05 p) for the last close p, in increasing
\* order around p when p > 0.
C16_ZonesAlwaysPopulated ==
    UnitCalled("detect_support_resistance_zones") =>
        /\ unit.ret # Raises
        /\ DOMAIN unit.ret = {"support", "resistance"}
        /\ Len(unit.ret.support) = 2
        /\ Len(unit.ret.resistance) = 2
        /\ Len(Rows) < unit.lookback =>
              LET p == LastClose(Rows)
                  z == unit.ret
              IN  /\ z.support[1] * 100 = 95 * p
                  /\ z.support[2] * 100 = 98 * p
                  /\ z.resistance[1] * 100 = 102 * p
                  /\ z.resistance[2] * 100 = 105 * p
                  /\ p > 0 => /\ z.support[1] < z.support[2]
                              /\ z.support[2] < p
                              /\ p < z.resistance[1]
                              /\ z.resistance[1] < z.resistance[2]

\* C17: once the forecast stage has run on a BUY, the stop-loss it left is at
\* most that of stage 5 and is not touched again, the take-profit it left is
\* at least that of stage 5 and the take-profit after normalization is at
\* least that; for a SELL the same with the inequalities reversed.
C17_LevelsOnlyWidened ==
    (pc \in {"risk_reward", "breakout", "report", "returned", "exit"} /\ flags # Unset) =>
        /\ signal_type = "BUY" =>
              /\ levels.sl6 <= levels.sl5
              /\ sl = levels.sl6
              /\ levels.tp6 >= levels.tp5
              /\ tp >= levels.tp6
        /\ signal_type = "SELL" =>
              /\ levels.sl6 >= levels.sl5
              /\ sl = levels.sl6
              /\ levels.tp6 <= levels.tp5
              /\ tp <= levels.tp6

C17_StrongBuyWidenedTwice ==
    /\ pc = "returned"
    /\ flags # Unset
    /\ StrongBuy
    /\ signal_type = "BUY"
    /\ levels.sl5 = Scale(current_price, 985, 1000)
    /\ levels.tp5 = Scale(current_price, 1015, 1000)
    /\ levels.sl6 < levels.sl5
    /\ levels.tp6 > levels.tp5
    /\ tp > levels.tp6

IsNumber(x) == x \notin {None, NaN, NA, Raise}

\* C18: while the decision is NO SIGNAL sl and tp are None, at stage 5, after
\* the forecast stage and after normalization, and the returned dict and the
\* report carry 0 for both; when the decision is BUY or SELL both are numbers
\* and the returned dict carries them.
C18_LevelsIffSignal ==
    /\ signal_type = "NO SIGNAL" =>
          /\ sl = None
          /\ tp = None
          /\ levels = NoHistory
    /\ (Returned /\ result.dict.signal = "NO SIGNAL") =>
          /\ result.dict.sl = 0
          /\ result.dict.tp = 0
          /\ result.success => (result.dict.snapshot.sl = 0 /\ result.dict.snapshot.tp = 0)
    /\ signal_type \in {"BUY", "SELL"} =>
          /\ IsNumber(sl)
          /\ IsNumber(tp)
          /\ IsNumber(levels.sl5) /\ IsNumber(levels.tp5)
          /\ pc # "forecast" => (IsNumber(levels.sl6) /\ IsNumber(levels.tp6))
          /\ Returned => (result.dict.sl = sl /\ result.dict.tp = tp)

C18_EvaluatedWithoutSignal ==
    /\ pc = "returned"
    /\ flags # Unset
    /\ result.success
    /\ result.dict.signal = "NO SIGNAL"
    /\ sl = None
    /\ tp = None
    /\ result.dict.sl = 0
    /\ result.dict.tp = 0

\* C19: in the breakout simulation the bullish scenario is BUY exactly when
\* RSI > 52 and %K > 45 on the bullish copy and NO SIGNAL otherwise, the
\* bearish one SELL exactly when RSI < 48 and %K < 55 on the bearish copy and
\* NO SIGNAL otherwise; a scenario has numbers for tp and sl exactly when its
\* signal fired, and the report shows N/A for both when it did not.
C19_ScenarioThresholds ==
    sim # Unset =>
        LET bull_fired == Gt(sim.rsi_bull, 52) /\ Gt(sim.stoch_bull, 45)
            bear_fired == Lt(sim.rsi_bear, 48) /\ Lt(sim.stoch_bear, 55)
        IN  /\ sim.bullish_signal = IF bull_fired THEN "BUY" ELSE "NO SIGNAL"
            /\ sim.bearish_signal = IF bear_fired THEN "SELL" ELSE "NO SIGNAL"
            /\ bull_fired <=> (IsNumber(sim.bull_tp) /\ IsNumber(sim.bull_sl))
            /\ bear_fired <=> (IsNumber(sim.bear_tp) /\ IsNumber(sim.bear_sl))
            /\ ~bull_fired => (sim.bull_tp = NA /\ sim.bull_sl = NA)
            /\ ~bear_fired => (sim.bear_tp = NA /\ sim.bear_sl = NA)
            /\ Evaluated =>
                  LET b == result.dict.snapshot.breakout
                  IN  /\ b.bullish.signal = Str(sim.bullish_signal)
                      /\ b.bearish.signal = Str(sim.bearish_signal)
                      /\ ~bull_fired => (b.bullish.tp = Str("N/A") /\ b.bullish.sl = Str("N/A"))
                      /\ ~bear_fired => (b.bearish.tp = Str("N/A") /\ b.bearish.sl = Str("N/A"))

C19_OnlyBullishFires ==
    /\ pc = "returned"
    /\ sim # Unset
    /\ result.success
    /\ sim.bullish_signal = "BUY"
    /\ sim.bearish_signal = "NO SIGNAL"
    /\ IsNumber(sim.bull_tp)
    /\ result.dict.snapshot.breakout.bullish.tp.text = "$"
    /\ result.dict.snapshot.breakout.bearish.tp = Str("N/A")

\* x brought into lo..hi (lo <= hi)
Clamp(x, lo, hi) == IF x < lo THEN lo ELSE IF x > hi THEN hi ELSE x

\* C20: on a series of n candles calculate_ema asks for the windows
\* clamp(n div 3, 10, 100) and clamp(n div 2, 20, 200), the first never above
\* the second; calculate_keltner_channels asks for clamp(n div 3, 5, period)
\* when the requested period is at least 5, and never for more than the
\* requested period.
C20_WindowClamps ==
    /\ UnitCalled("calculate_ema") =>
          LET n == Len(Rows)
          IN  /\ unit.periods.ema100_period = Clamp(n \div 3, 10, 100)
              /\ unit.periods.ema200_period = Clamp(n \div 2, 20, 200)
              /\ unit.periods.ema100_period <= unit.periods.ema200_period
    /\ UnitCalled("calculate_keltner_channels") =>
          LET n == Len(Rows)
          IN  /\ unit.period >= 5 => unit.actual_period = Clamp(n \div 3, 5, unit.period)
              /\ unit.actual_period <= unit.period

C20_BothUpperClamps ==
    /\ UnitCalled("calculate_ema")
    /\ Len(Rows) = 402
    /\ unit.periods = [ema100_period |-> 100, ema200_period |-> 200]

\* every close of the series run_strategy was given is positive
PositiveSeries == df.present /\ \A i \in DOMAIN Rows : Rows[i].Close > 0

\* C21: on a series of positive prices the levels returned with a BUY have
\* sl < current price < tp and those returned with a SELL have
\* tp < current price < sl, so the risk |current price - sl| is not zero.
C21_LevelsBracketPrice ==
    (Evaluated /\ PositiveSeries) =>
        LET price == result.dict.snapshot.current_price
        IN  /\ result.dict.signal = "BUY" =>
                  (result.dict.sl < price /\ price < result.dict.tp)
            /\ result.dict.signal = "SELL" =>
                  (result.dict.tp < price /\ price < result.dict.sl)
            /\ result.dict.signal \in {"BUY", "SELL"} => Abs(price - result.dict.sl) > 0

C21_SellNormalizedBelowPrice ==
    /\ pc = "returned"
    /\ result.success
    /\ PositiveSeries
    /\ result.dict.signal = "SELL"
    /\ result.dict.tp # levels.tp6
    /\ result.dict.tp < current_price
    /\ current_price < result.dict.sl

\* C22 as stated: on a series of positive prices every sl and tp that comes
\* with a BUY or SELL is positive: after the forecast stage, after
\* normalization and in the returned dict.
C22_LevelsPositive ==
    (PositiveSeries /\ signal_type \in {"BUY", "SELL"}
        /\ pc \in {"risk_reward", "breakout", "report", "returned", "exit"}) =>
        /\ levels.sl6 > 0
        /\ levels.tp6 > 0
        /\ sl > 0
        /\ tp > 0
        /\ Evaluated => (result.dict.sl > 0 /\ result.dict.tp > 0)

\* C23 as stated: the emitted direction agrees with the vote: BUY only with
\* bullish_points >= bearish_points, SELL only with bearish_points >=
\* bullish_points, so the confidence max(bullish, bearish) / 5 * 100 counts
\* the votes for the emitted direction.
C23_DirectionAgreesWithVote ==
    (flags # Unset /\ vote # Unset) =>
        /\ signal_type = "BUY" => vote.bullish_points >= vote.bearish_points
        /\ signal_type = "SELL" => vote.bearish_points >= vote.bullish_points

====
